---- MODULE Spec2Model ----
(***************************************************************************)
(* Model of AgriculturalSunAndWaterMetrics1.0.py: yearly shade of a field  *)
(* of rotation-limited solar structures ("blumes") and the reference ET    *)
(* discounted by it.                                                       *)
(*                                                                         *)
(* Number representation (the source computes in binary floating point):   *)
(*   lengths            hundredths of a length unit   (22.3 -> 2230)       *)
(*   areas              whole square units            (36 * 36 = 1296)     *)
(*   angles             whole degrees; solar elevation in arcseconds       *)
(*   cos                millionths                                         *)
(*   1 / tan            thousandths                                        *)
(*   shade fractions    thousandths (One = 1.0)                            *)
(*   ET values          thousandths of a millimetre                        *)
(*   datetimes          [sec, usec]: seconds since 1 January 00:00:00 of   *)
(*                      the year on the wall clock, and microseconds       *)
(* Every division rounds toward minus infinity, so a negative quantity     *)
(* stays negative.                                                         *)
(***************************************************************************)
EXTENDS Integers, Sequences, FiniteSets, TLC

VARIABLES
    pc,                   \* position of the running function
    caller,               \* who called iterate_sunrise_to_sunset
    error,                \* the exception that ended the run, or "none"
    lat, lon, year,       \* calculation_parameters
    timezone, max_rotation, tilt,
    sunrise_sunset_pairs, \* sunrise_sunset_times' result
    start_date,           \* sunrise_sunset_times' stride date, <<y, m, d>>
    current_date,         \* iterate_through_year's loop date, <<y, m, d>>
    shade_results,        \* iterate_through_year's list
    month, day,           \* iterate_sunrise_to_sunset's arguments
    matched,              \* find_closest_sunrise_sunset's result
    sunrise_rounded, sunset_rounded,
    current_time, total_shade_coverage, count,
    shade_call,           \* the last shade_coverage call: arguments and locals
    daily_shade_value,    \* iterate_sunrise_to_sunset's return value
    status_code,          \* response.status_code of the ET fetch
    response_json,        \* response.json() of the ET fetch
    et_data,              \* evapotranspiration's result
    daily_shade,          \* adjusted_evapotranspiration's shade list
    adjusted_et_values,   \* adjusted_evapotranspiration's first result
    totals,               \* what main printed: sums and water saved
    plotted               \* plot_values drew its figures

vars == << pc, caller, error, lat, lon, year, timezone, max_rotation, tilt,
           sunrise_sunset_pairs, start_date, current_date, shade_results,
           month, day, matched, sunrise_rounded, sunset_rounded, current_time,
           total_shade_coverage, count, shade_call, daily_shade_value,
           status_code, response_json, et_data, daily_shade,
           adjusted_et_values, totals, plotted >>

\* Python's None, and a Python list (a variable holding either holds a record)
None == [none |-> TRUE]

List(q) == [list |-> q]

(***************************************************************************)
(* Arithmetic helpers.                                                     *)
(***************************************************************************)
Min(a, b) == IF a <= b THEN a ELSE b

Max(a, b) == IF a >= b THEN a ELSE b

Abs(a) == IF a < 0 THEN -a ELSE a

\* floor(a * b / c) for c > 0, computed without leaving 32 bits
MulDiv(a, b, c) == (a \div c) * b + ((a % c) * b) \div c

\* 1.0 as a shade fraction
One == 1000

(***************************************************************************)
(* math.cos and 1 / math.tan.                                              *)
(***************************************************************************)
CosTable ==
   << 1000000, 999848, 999391, 998630, 997564, 996195, 994522,
      992546, 990268, 987688, 984808, 981627, 978148, 974370,
      970296, 965926, 961262, 956305, 951057, 945519, 939693,
      933580, 927184, 920505, 913545, 906308, 898794, 891007,
      882948, 874620, 866025, 857167, 848048, 838671, 829038,
      819152, 809017, 798636, 788011, 777146, 766044, 754710,
      743145, 731354, 719340, 707107, 694658, 681998, 669131,
      656059, 642788, 629320, 615661, 601815, 587785, 573576,
      559193, 544639, 529919, 515038, 500000, 484810, 469472,
      453990, 438371, 422618, 406737, 390731, 374607, 358368,
      342020, 325568, 309017, 292372, 275637, 258819, 241922,
      224951, 207912, 190809, 173648, 156434, 139173, 121869,
      104528, 87156, 69756, 52336, 34899, 17452, 0 >>

\* math.cos(math.radians(deg)) in millionths, deg a whole number of degrees
Cos(deg) ==
    LET m == deg % 360
        n == IF m > 180 THEN 360 - m ELSE m
    IN  IF n <= 90 THEN CosTable[n + 1] ELSE -CosTable[180 - n + 1]

\* 1 / math.tan at a whole number of degrees 10..90, in thousandths
CotDeg(d) == (Cos(d) * 1000) \div Cos(90 - d)

\* 1 / math.tan(math.radians(e)) in thousandths, e in arcseconds, e /= 0:
\* 1/x - x/3 below 10 degrees, linear between whole degrees above
CotMilli(e) ==
    LET a == Abs(e)
        d == a \div 3600
        f == a % 3600
        c == IF a <= 36000
             THEN 206264806 \div a - (a * 1000) \div 618794
             ELSE IF f = 0 THEN CotDeg(d)
             ELSE CotDeg(d) + ((CotDeg(d + 1) - CotDeg(d)) * f) \div 3600
    IN  IF e < 0 THEN -c ELSE c

(***************************************************************************)
(* Solar calculation functions.                                            *)
(***************************************************************************)
\* atmospheric_refraction: elevation in arcseconds -> refraction in
\* thousandths of an arcsecond
AtmosphericRefraction(solar_elevation) ==
    IF solar_elevation > 85 * 3600 THEN 0
    ELSE IF solar_elevation > 5 * 3600 THEN
        LET c  == CotMilli(solar_elevation)
            c2 == (c * c) \div 1000
            c3 == (c2 * c) \div 1000
            c5 == MulDiv(c3, c2, 1000)
        IN  (581 * c) \div 10 - (7 * c3) \div 100 + MulDiv(c5, 86, 1000000)
    ELSE IF solar_elevation > -2070 THEN
        LET d  == solar_elevation \div 36       \* hundredths of a degree
            t3 == -12790 + (d * 711) \div 100
            t2 == 103400 + (d * t3) \div 100
            t1 == -518200 + (d * t2) \div 100
        IN  1735000 + (d * t1) \div 100
    ELSE MulDiv(CotMilli(solar_elevation), -20772, 1000)

\* the strictly positive floor of solar_position_adj (0.0000000001 degrees,
\* below the model's resolution: the smallest positive elevation)
Epsilon == 1

\* solar_position_adj: elevation in arcseconds -> corrected elevation
SolarPositionAdj(solar_elevation) ==
    Max(Epsilon, solar_elevation + AtmosphericRefraction(solar_elevation) \div 1000)

\* solar_angles_skyfield: the ephemeris, a fixed function of the place and the
\* UTC instant. The sun culminates at local solar noon at 90 - |lat| degrees
\* and is on the horizon six hours away from it; its azimuth is measured
\* clockwise from north, southward of the zenith for lat > 0 and northward
\* otherwise. Returns elevation in arcseconds and azimuth in degrees.
SolarAnglesSkyfield(la, lo, dt) ==
    LET H    == (((dt.sec \div 3600) % 24) + (lo \div 15)) % 24
        noon == 90 - Abs(la)
        elev == noon - Abs(H - 12) * (noon \div 6)
        az   == IF la > 0 THEN 15 * H ELSE (180 - 15 * H) % 360
    IN  [elevation |-> elev * 3600, azimuth |-> az]

(***************************************************************************)
(* Shade calculation functions.                                            *)
(***************************************************************************)
\* calculation_parameters: the blume and the ground around it
NS_spacing == 36

EW_spacing == 36

ground_area == NS_spacing * EW_spacing

height == 2230

width == 1830

\* shadow_dimensions: lengths in hundredths, the area in square units
ShadowDimensions(h, w, tlt, elevation, solar_azimuth, azimuth_blume) ==
    LET half          == MulDiv(h \div 2, Cos(tlt), 1000000)
        height_bottom == w - half
        height_top    == w + half
        cot           == CotMilli(elevation)
        length_shadow == MulDiv(cot, height_top, 1000)
                           - MulDiv(cot, height_bottom, 1000)
                           + MulDiv(h, Cos(tlt), 1000000)
        width_shadow  == MulDiv(w, Cos(azimuth_blume - solar_azimuth), 1000000)
    IN  MulDiv(length_shadow, width_shadow, 10000)

\* (local_hour - timezone) % 24
UtcHour(local_hour, tz) == (local_hour - tz) % 24

\* AzimuthBlume without its lower clamp
AzimuthBlumeUpperOnly(azimuth_S, max_rot) == Min(azimuth_S, max_rot)

\* min(max(azimuth_S, -max_rotation), max_rotation)
AzimuthBlume(azimuth_S, max_rot) == Min(Max(azimuth_S, -max_rot), max_rot)

\* min(1, area_of_shadow / ground_area)
GroundCoverage(area_of_shadow, ground) == Min(One, MulDiv(area_of_shadow, One, ground))

(***************************************************************************)
(* datetime.                                                               *)
(***************************************************************************)
IsLeap(y) == (y % 4 = 0 /\ y % 100 /= 0) \/ y % 400 = 0

DaysInMonth(y, m) ==
    IF m = 2 THEN (IF IsLeap(y) THEN 29 ELSE 28)
    ELSE IF m \in {4, 6, 9, 11} THEN 30 ELSE 31

\* NextDay with February always 28 days long
NextDayNoLeapDay(d) ==
    IF d[3] < (IF d[2] = 2 THEN 28 ELSE DaysInMonth(d[1], d[2]))
    THEN << d[1], d[2], d[3] + 1 >>
    ELSE IF d[2] < 12 THEN << d[1], d[2] + 1, 1 >>
    ELSE << d[1] + 1, 1, 1 >>

\* date + timedelta(days=1), dates being <<year, month, day>>
NextDay(d) ==
    IF d[3] < DaysInMonth(d[1], d[2]) THEN << d[1], d[2], d[3] + 1 >>
    ELSE IF d[2] < 12 THEN << d[1], d[2] + 1, 1 >>
    ELSE << d[1] + 1, 1, 1 >>

RECURSIVE AddDays(_, _)
\* date + timedelta(days=n)
AddDays(d, n) == IF n = 0 THEN d ELSE AddDays(NextDay(d), n - 1)

\* date comparison d < e
DateLess(d, e) ==
    \/ d[1] < e[1]
    \/ d[1] = e[1] /\ d[2] < e[2]
    \/ d[1] = e[1] /\ d[2] = e[2] /\ d[3] < e[3]

RECURSIVE DaysBeforeMonth(_, _)
DaysBeforeMonth(y, m) ==
    IF m = 1 THEN 0 ELSE DaysBeforeMonth(y, m - 1) + DaysInMonth(y, m - 1)

\* datetime(y, m, d, hh, mm, ss) as [sec, usec] from 1 January of y
DateTime(y, m, d, hh, mm, ss) ==
    [sec  |-> (DaysBeforeMonth(y, m) + d - 1) * 86400 + hh * 3600 + mm * 60 + ss,
     usec |-> 0]

\* the fields of a datetime
HourOf(t) == (t.sec \div 3600) % 24

MinuteOf(t) == (t.sec \div 60) % 60

SecondOf(t) == t.sec % 60

\* t + timedelta(minutes=n)
AddMinutes(t, n) == [t EXCEPT !.sec = @ + 60 * n]

\* t.replace(second=0, microsecond=0)
ReplaceSecond0(t) == [sec |-> t.sec - SecondOf(t), usec |-> 0]

\* TimeLeq leaving out equality
TimeLess(a, b) == a.sec < b.sec \/ (a.sec = b.sec /\ a.usec < b.usec)

\* a <= b on datetimes
TimeLeq(a, b) == a.sec < b.sec \/ (a.sec = b.sec /\ a.usec <= b.usec)

\* abs(a - b), a timedelta as [sec, usec] with 0 <= usec < 1000000
AbsDelta(a, b) ==
    LET hi == IF TimeLeq(a, b) THEN b ELSE a
        lo == IF TimeLeq(a, b) THEN a ELSE b
    IN  IF hi.usec >= lo.usec
        THEN [sec |-> hi.sec - lo.sec, usec |-> hi.usec - lo.usec]
        ELSE [sec |-> hi.sec - lo.sec - 1, usec |-> hi.usec + 1000000 - lo.usec]

\* a < b on timedeltas
DeltaLess(a, b) == a.sec < b.sec \/ (a.sec = b.sec /\ a.usec < b.usec)

\* strftime('%Y-%m-%d'): the digits of the padded date, e.g. 2022-01-05 as
\* <<2, 0, 2, 2, 0, 1, 0, 5>>
Strftime(d) ==
    << d[1] \div 1000, (d[1] \div 100) % 10, (d[1] \div 10) % 10, d[1] % 10,
       d[2] \div 10, d[2] % 10, d[3] \div 10, d[3] % 10 >>

\* shade_coverage: its locals and, as result, the coverage it returns
ShadeCoverage(la, lo, local_year, ground, h, w, tlt, local_hour, max_rot, tz, local_month, local_day, local_minute) ==
    LET utc_hour       == UtcHour(local_hour, tz)
        dt_utc         == DateTime(local_year, local_month, local_day, utc_hour,
                                   local_minute, 0)
        angles         == SolarAnglesSkyfield(la, lo, dt_utc)
        elevation      == SolarPositionAdj(angles.elevation)
        azimuth_S      == 180 - angles.azimuth
        azimuth_blume  == AzimuthBlume(azimuth_S, max_rot)
        area_of_shadow == ShadowDimensions(h, w, tlt, elevation, azimuth_S,
                                           azimuth_blume)
    IN  [local_hour |-> local_hour, local_minute |-> local_minute,
         local_month |-> local_month, local_day |-> local_day,
         utc_hour |-> utc_hour, dt_utc |-> dt_utc,
         solarelevation |-> angles.elevation, azimuth |-> angles.azimuth,
         elevation |-> elevation, azimuth_S |-> azimuth_S,
         azimuth_blume |-> azimuth_blume, area_of_shadow |-> area_of_shadow,
         result |-> GroundCoverage(area_of_shadow, ground)]

(***************************************************************************)
(* Sunrise and sunset functions.                                           *)
(***************************************************************************)
\* the key of find_closest_sunrise_sunset's min: abs(target_date_aware - pair[0])
ClosestKey(pair, target_date) == AbsDelta(target_date, pair.sunrise)

RECURSIVE MinScanLast(_, _, _, _)
\* MinScan replacing the element kept on an equal key too
MinScanLast(pairs, target_date, i, best) ==
    IF i > Len(pairs) THEN best
    ELSE IF ~DeltaLess(ClosestKey(pairs[best], target_date),
                       ClosestKey(pairs[i], target_date))
         THEN MinScanLast(pairs, target_date, i + 1, i)
         ELSE MinScanLast(pairs, target_date, i + 1, best)

RECURSIVE MinScan(_, _, _, _)
\* Python's min(..., key=...): the element kept is replaced only by one whose
\* key is strictly smaller
MinScan(pairs, target_date, i, best) ==
    IF i > Len(pairs) THEN best
    ELSE IF DeltaLess(ClosestKey(pairs[i], target_date),
                      ClosestKey(pairs[best], target_date))
         THEN MinScan(pairs, target_date, i + 1, i)
         ELSE MinScan(pairs, target_date, i + 1, best)

\* find_closest_sunrise_sunset: the index of the pair it returns
FindClosestSunriseSunset(pairs, target_date) == MinScan(pairs, target_date, 2, 1)

(***************************************************************************)
(* iterate_sunrise_to_sunset, one step per loop iteration.                 *)
(***************************************************************************)
\* RoundSunrise rounding down like RoundSunset
RoundSunriseDown(sunrise) == ReplaceSecond0(sunrise)

\* sunrise.replace(second=0, microsecond=0)
\*   + timedelta(minutes=1 if sunrise.second or sunrise.microsecond else 0)
RoundSunrise(sunrise) ==
    AddMinutes(ReplaceSecond0(sunrise),
               IF SecondOf(sunrise) /= 0 \/ sunrise.usec /= 0 THEN 1 ELSE 0)

\* sunset.replace(second=0, microsecond=0)
RoundSunset(sunset) == ReplaceSecond0(sunset)

\* total_shade_coverage / count if count else 0
DailyAverage(total, n) == IF n /= 0 THEN total \div n ELSE 0

NoCall == [local_hour |-> None]

dayVars == << matched, sunrise_rounded, sunset_rounded, current_time,
              total_shade_coverage, count, shade_call, daily_shade_value >>

yearVars == << start_date, current_date, shade_results >>

etVars == << status_code, response_json, et_data, daily_shade,
             adjusted_et_values, totals, plotted >>

paramVars == << lat, lon, year, timezone, max_rotation, tilt >>

\* lines 228-242: match the day's pair, round it, reset the accumulators
DayBegin ==
    /\ pc = "iterate_sunrise_to_sunset"
    /\ IF sunrise_sunset_pairs = << >>
       THEN /\ pc' = "raised"
            /\ error' = "ValueError"     \* min() of an empty sequence
            /\ UNCHANGED dayVars
       ELSE LET target_date == DateTime(year, month, day, 0, 0, 0)
                i == FindClosestSunriseSunset(sunrise_sunset_pairs, target_date)
                pair == sunrise_sunset_pairs[i]
            IN  /\ matched' = i
                /\ sunrise_rounded' = RoundSunrise(pair.sunrise)
                /\ sunset_rounded' = RoundSunset(pair.sunset)
                /\ total_shade_coverage' = 0
                /\ count' = 0
                /\ current_time' = RoundSunrise(pair.sunrise)
                /\ pc' = "sampling"
                /\ UNCHANGED << error, shade_call, daily_shade_value >>
    /\ UNCHANGED << caller, paramVars, sunrise_sunset_pairs, month, day,
                    yearVars, etVars >>

\* lines 245-252: one iteration of the sampling loop
SampleStep ==
    /\ pc = "sampling"
    /\ TimeLeq(current_time, sunset_rounded)
    /\ LET minute == MinuteOf(current_time)
           hour   == HourOf(current_time)
           call   == ShadeCoverage(lat, lon, year, ground_area, height, width,
                                   tilt, hour, max_rotation, timezone, month,
                                   day, minute)
       IN  /\ shade_call' = call
           /\ total_shade_coverage' = total_shade_coverage + call.result
    /\ count' = count + 1
    /\ current_time' = AddMinutes(current_time, 60)
    /\ UNCHANGED << pc, caller, error, paramVars, sunrise_sunset_pairs, month,
                    day, matched, sunrise_rounded, sunset_rounded,
                    daily_shade_value, yearVars, etVars >>

\* line 256: leave the loop and return the average
DayReturn ==
    /\ pc = "sampling"
    /\ ~TimeLeq(current_time, sunset_rounded)
    /\ daily_shade_value' = DailyAverage(total_shade_coverage, count)
    /\ pc' = IF caller = "iterate_through_year" THEN "append" ELSE "returned"
    /\ UNCHANGED << caller, error, paramVars, sunrise_sunset_pairs, month, day,
                    matched, sunrise_rounded, sunset_rounded, current_time,
                    total_shade_coverage, count, shade_call, yearVars, etVars >>

(***************************************************************************)
(* SpecDay: iterate_sunrise_to_sunset called once, on a bounded family of  *)
(* calendars, days and places.                                             *)
(***************************************************************************)
\* the longest calendar handed to the function
MaxPairs == 3

\* a wall-clock instant of January: day, hour, minute, second, microsecond
Jan(d, hh, mm, ss, us) ==
    [sec |-> (d - 1) * 86400 + hh * 3600 + mm * 60 + ss, usec |-> us]

\* the pairs the calendars are made of: biweekly winter days, a pair sharing
\* its sunrise with another, and degenerate pairs (sunrise = sunset on and off
\* a whole minute, sunset before sunrise)
PairChoices ==
    { [sunrise |-> Jan(1, 7, 30, 0, 0),       sunset |-> Jan(1, 16, 40, 10, 0)],
      [sunrise |-> Jan(15, 7, 25, 30, 500000), sunset |-> Jan(15, 16, 55, 0, 0)],
      [sunrise |-> Jan(29, 7, 10, 0, 0),      sunset |-> Jan(29, 17, 15, 30, 0)],
      [sunrise |-> Jan(15, 7, 25, 30, 500000), sunset |-> Jan(15, 7, 26, 0, 0)],
      [sunrise |-> Jan(15, 12, 0, 0, 0),      sunset |-> Jan(15, 12, 0, 0, 0)],
      [sunrise |-> Jan(15, 12, 0, 0, 1),      sunset |-> Jan(15, 12, 0, 0, 1)],
      [sunrise |-> Jan(15, 17, 0, 0, 0),      sunset |-> Jan(15, 7, 0, 0, 0)] }

Calendars == UNION { [1..n -> PairChoices] : n \in 0..MaxPairs }

\* the days asked for, as <<month, day>>
TargetDays == { << 1, 1 >>, << 1, 15 >>, << 1, 20 >> }

\* places: latitude, longitude and get_timezone's whole-hour offset (which is
\* the zone's offset at the time of the run, so daylight saving shifts it)
Places ==
    { [lat |-> 42,  lon |-> -120, timezone |-> -8],
      [lat |-> 42,  lon |-> -120, timezone |-> -7],
      [lat |-> -35, lon |-> 135,  timezone |-> 9],
      [lat |-> 0,   lon |-> 0,    timezone |-> 0],
      [lat |-> 80,  lon |-> 15,   timezone |-> 1] }

MaxRotations == { 0, 45 }

Years == 2018..2022

IdleDay ==
    /\ matched = 0
    /\ sunrise_rounded = None
    /\ sunset_rounded = None
    /\ current_time = None
    /\ total_shade_coverage = 0
    /\ count = 0
    /\ shade_call = NoCall
    /\ daily_shade_value = None

IdleYear ==
    /\ start_date = None
    /\ current_date = None
    /\ shade_results = << >>

IdleET ==
    /\ status_code = None
    /\ response_json = << >>
    /\ et_data = None
    /\ daily_shade = << >>
    /\ adjusted_et_values = None
    /\ totals = None
    /\ plotted = FALSE

InitDay ==
    /\ pc = "iterate_sunrise_to_sunset"
    /\ caller = "none"
    /\ error = "none"
    /\ \E p \in Places : lat = p.lat /\ lon = p.lon /\ timezone = p.timezone
    /\ year = 2022
    /\ max_rotation \in MaxRotations
    /\ tilt = 35
    /\ sunrise_sunset_pairs \in Calendars
    /\ \E t \in TargetDays : month = t[1] /\ day = t[2]
    /\ IdleDay
    /\ IdleYear
    /\ IdleET

NextDayCall == DayBegin \/ SampleStep \/ DayReturn

SpecDay == InitDay /\ [][NextDayCall]_vars

(***************************************************************************)
(* sunrise_sunset_times, one step per 14-day stride.                       *)
(***************************************************************************)
\* days from 1 January of the date's year to the date
DayNumber(d) == DaysBeforeMonth(d[1], d[2]) + d[3] - 1

\* half the length of daylight on day n at latitude la, in seconds: six hours
\* at the equator, longer in the hemisphere's summer
HalfDay(la, n) == 21600 + (la * Abs(la) * (91 - Abs(n - 182))) \div 20

\* the zone's offset from UTC in hours (pytz.timezone(get_timezone_str(...)))
ZoneOffset(lo) == lo \div 15

\* the sun's crossings of the horizon on day n, as UTC instants
DayCrossings(la, lo, n) ==
    LET half == HalfDay(la, n)
        noon == n * 86400 + 43200 - ZoneOffset(lo) * 3600
        us   == IF n % 2 = 0 THEN 0 ELSE 500000
    IN  IF half <= 0 \/ half >= 43200 THEN << >>
        ELSE << [t |-> [sec |-> noon - half + ((n * 37) % 60), usec |-> us],
                 sunrise |-> TRUE],
                [t |-> [sec |-> noon + half, usec |-> us], sunrise |-> FALSE] >>

\* almanac.find_discrete(t0, t1, almanac.sunrise_sunset(...)): the crossings
\* with t0 <= t < t1, in time order, t0 being 04:00 UTC of day n and t1 04:00
\* UTC of the next day
FindDiscrete(la, lo, n) ==
    LET t0  == n * 86400 + 4 * 3600
        t1  == (n + 1) * 86400 + 4 * 3600
        all == DayCrossings(la, lo, n - 1) \o DayCrossings(la, lo, n)
                 \o DayCrossings(la, lo, n + 1)
    IN  SelectSeq(all, LAMBDA c : t0 <= c.t.sec /\ c.t.sec < t1)

\* astimezone(pytz.timezone(...)): the wall clock of a UTC instant
AsTimezone(t, lo) == [t EXCEPT !.sec = @ + ZoneOffset(lo) * 3600]

iteration_days == 14

\* lines 145-155
CalendarBegin ==
    /\ pc = "sunrise_sunset_times"
    /\ start_date' = << year, 1, 1 >>
    /\ sunrise_sunset_pairs' = << >>
    /\ pc' = "calendar_loop"
    /\ UNCHANGED << caller, error, paramVars, current_date, shade_results,
                    month, day, dayVars, etVars >>

\* lines 158-172: one stride
CalendarStep ==
    /\ pc = "calendar_loop"
    /\ DateLess(start_date, << year + 1, 1, 1 >>)
    /\ LET found == FindDiscrete(lat, lon, DayNumber(start_date))
       IN  sunrise_sunset_pairs' =
               IF Len(found) >= 2
               THEN Append(sunrise_sunset_pairs,
                           [sunrise |-> AsTimezone(found[1].t, lon),
                            sunset  |-> AsTimezone(found[2].t, lon)])
               ELSE sunrise_sunset_pairs
    /\ start_date' = AddDays(start_date, iteration_days)
    /\ UNCHANGED << pc, caller, error, paramVars, current_date, shade_results,
                    month, day, dayVars, etVars >>

\* line 175
CalendarReturn ==
    /\ pc = "calendar_loop"
    /\ ~DateLess(start_date, << year + 1, 1, 1 >>)
    /\ pc' = "iterate_through_year"
    /\ UNCHANGED << caller, error, paramVars, sunrise_sunset_pairs, yearVars,
                    month, day, dayVars, etVars >>

(***************************************************************************)
(* iterate_through_year, one step per day.                                 *)
(***************************************************************************)
\* lines 196-203
YearBegin ==
    /\ pc = "iterate_through_year"
    /\ shade_results' = << >>
    /\ current_date' = << year, 1, 1 >>
    /\ pc' = "year_loop"
    /\ UNCHANGED << caller, error, paramVars, sunrise_sunset_pairs, start_date,
                    month, day, dayVars, etVars >>

\* lines 206-209: the loop test and the call of iterate_sunrise_to_sunset
YearStep ==
    /\ pc = "year_loop"
    /\ DateLess(current_date, << year + 1, 1, 1 >>)
    /\ month' = current_date[2]
    /\ day' = current_date[3]
    /\ caller' = "iterate_through_year"
    /\ pc' = "iterate_sunrise_to_sunset"
    /\ UNCHANGED << error, paramVars, sunrise_sunset_pairs, yearVars, dayVars,
                    etVars >>

\* lines 212-220: store the day's record and move to the next day
YearAppend ==
    /\ pc = "append"
    /\ shade_results' = Append(shade_results,
                               [time  |-> Strftime(current_date),
                                shade |-> daily_shade_value])
    /\ current_date' = NextDay(current_date)
    /\ pc' = "year_loop"
    /\ UNCHANGED << caller, error, paramVars, sunrise_sunset_pairs, start_date,
                    month, day, dayVars, etVars >>

\* line 223
YearReturn ==
    /\ pc = "year_loop"
    /\ ~DateLess(current_date, << year + 1, 1, 1 >>)
    /\ pc' = "year_returned"
    /\ UNCHANGED << caller, error, paramVars, sunrise_sunset_pairs, yearVars,
                    month, day, dayVars, etVars >>

(***************************************************************************)
(* SpecYear: sunrise_sunset_times, then iterate_through_year on its result,*)
(* as adjusted_evapotranspiration calls them (lines 304-309).              *)
(***************************************************************************)
YearPlaces == { p \in Places : p.timezone /= -7 /\ p.lat /= 0 }

InitYear ==
    /\ pc = "sunrise_sunset_times"
    /\ caller = "none"
    /\ error = "none"
    /\ \E p \in YearPlaces : lat = p.lat /\ lon = p.lon /\ timezone = p.timezone
    /\ year \in Years
    /\ max_rotation = 45
    /\ tilt = 35
    /\ sunrise_sunset_pairs = << >>
    /\ month = None
    /\ day = None
    /\ IdleDay
    /\ IdleYear
    /\ IdleET

NextYear ==
    \/ CalendarBegin \/ CalendarStep \/ CalendarReturn
    \/ YearBegin \/ YearStep \/ DayBegin \/ SampleStep \/ DayReturn
    \/ YearAppend \/ YearReturn

SpecYear == InitYear /\ [][NextYear]_vars

(***************************************************************************)
(* Evapotranspiration data, adjustment and totals.                         *)
(***************************************************************************)
\* GetEtData returning the body whatever the status
GetEtDataAnyStatus(status, json) == List(json)

\* get_et_data, lines 279-283: the body of a 200 response, else None
GetEtData(status, json) == IF status = 200 THEN List(json) ELSE None

\* evapotranspiration, lines 292-298: the data when truthy; otherwise the
\* function prints and falls off its end, which returns None
Evapotranspiration(status, json) ==
    LET data == GetEtData(status, json)
    IN  IF data /= None /\ data.list /= << >> THEN data ELSE None

\* 'et' in item
HasEt(item) == "et" \in DOMAIN item

\* AdjustedValue keeping the shaded share instead of the unshaded one
AdjustedValueShaded(et, shade) == MulDiv(et, shade, One)

\* dm[0]['et'] * (1 - dm[1]['shade'])
AdjustedValue(et, shade) == MulDiv(et, One - shade, One)

\* zip(et_data, daily_shade) stops at the shorter of its arguments
ZipLen(a, b) == Min(Len(a), Len(b))

\* list(map(lambda dm: ..., zip(et_data, daily_shade)))
AdjustedList(et, shade) ==
    [i \in 1..ZipLen(et, shade) |-> AdjustedValue(et[i].et, shade[i].shade)]

RECURSIVE SumSeq(_)
\* sum() of a list of numbers
SumSeq(q) == IF q = << >> THEN 0 ELSE q[1] + SumSeq(Tail(q))

\* the 'et' of the items that have one
EtValues(et) == LET has == SelectSeq(et, HasEt) IN [i \in 1..Len(has) |-> has[i].et]

\* water_saved, lines 381-388
WaterSaved(et, adjusted) == SumSeq(EtValues(et)) - SumSeq(adjusted)

\* an item's date as a number, for strptime(...) comparisons: 20220105
DateValue(t) ==
    t[1] * 10000000 + t[2] * 1000000 + t[3] * 100000 + t[4] * 10000
      + t[5] * 1000 + t[6] * 100 + t[7] * 10 + t[8]

\* start_date_obj <= strptime(time) <= end_date_obj
Between(t, first, last) == first <= DateValue(t) /\ DateValue(t) <= last

\* sum_et_data_between_dates, lines 320-322
SumEtDataBetweenDates(et, first, last) ==
    LET in(item) == HasEt(item) /\ Between(item.time, first, last)
    IN  SumSeq(EtValues(SelectSeq(et, in)))

\* sum_adjusted_et_data_between_dates, lines 327-329
SumAdjustedEtDataBetweenDates(adjusted, shade, first, last) ==
    LET n  == ZipLen(adjusted, shade)
        ix == SelectSeq([i \in 1..n |-> i],
                        LAMBDA i : Between(shade[i].time, first, last))
    IN  SumSeq([k \in 1..Len(ix) |-> adjusted[ix[k]]])

\* line 310: the fetch and evapotranspiration's answer
Fetch ==
    /\ pc = "evapotranspiration"
    /\ et_data' = Evapotranspiration(status_code, response_json)
    /\ pc' = "zip"
    /\ UNCHANGED << caller, error, paramVars, sunrise_sunset_pairs, yearVars,
                    month, day, dayVars, status_code, response_json,
                    daily_shade, adjusted_et_values, totals, plotted >>

\* line 313: the element-wise product over zip(et_data, daily_shade)
Combine ==
    /\ pc = "zip"
    /\ IF et_data = None
       THEN /\ pc' = "raised"
            /\ error' = "TypeError"     \* zip argument #1 must support iteration
            /\ UNCHANGED adjusted_et_values
       ELSE IF \E i \in 1..ZipLen(et_data.list, daily_shade) :
                   ~HasEt(et_data.list[i])
       THEN /\ pc' = "raised"
            /\ error' = "KeyError"      \* dm[0]['et']
            /\ UNCHANGED adjusted_et_values
       ELSE /\ pc' = "water_saved"
            /\ adjusted_et_values' = List(AdjustedList(et_data.list, daily_shade))
            /\ UNCHANGED error
    /\ UNCHANGED << caller, paramVars, sunrise_sunset_pairs, yearVars, month,
                    day, dayVars, status_code, response_json, et_data,
                    daily_shade, totals, plotted >>

\* main, lines 469-479: the sums over 2022 and the water saved
Totals ==
    /\ pc = "water_saved"
    /\ totals' =
         [et_sum_between_dates |->
              SumEtDataBetweenDates(et_data.list, 20220101, 20221231),
          adjusted_et_sum_between_dates |->
              SumAdjustedEtDataBetweenDates(adjusted_et_values.list, daily_shade,
                                            20220101, 20221231),
          water |-> WaterSaved(et_data.list, adjusted_et_values.list)]
    /\ pc' = "plot_values"
    /\ UNCHANGED << caller, error, paramVars, sunrise_sunset_pairs, yearVars,
                    month, day, dayVars, status_code, response_json, et_data,
                    daily_shade, adjusted_et_values, plotted >>

\* plot_values, lines 336-373: item['et'] of every item, and plots of dates
\* against the three series, which matplotlib refuses when their lengths differ
PlotValues ==
    /\ pc = "plot_values"
    /\ IF \E i \in 1..Len(et_data.list) : ~HasEt(et_data.list[i])
       THEN /\ pc' = "raised"
            /\ error' = "KeyError"
            /\ UNCHANGED plotted
       ELSE IF Len(et_data.list) /= Len(daily_shade)
       THEN /\ pc' = "raised"
            /\ error' = "ValueError"    \* x and y must have same first dimension
            /\ UNCHANGED plotted
       ELSE /\ pc' = "done"
            /\ plotted' = TRUE
            /\ UNCHANGED error
    /\ UNCHANGED << caller, paramVars, sunrise_sunset_pairs, yearVars, month,
                    day, dayVars, status_code, response_json, et_data,
                    daily_shade, adjusted_et_values, totals >>

(***************************************************************************)
(* SpecET: adjusted_evapotranspiration from its fetch on, and main after   *)
(* it, on bounded shade lists and bounded answers of the ET service.       *)
(***************************************************************************)
\* the longest shade list; the service may answer with one item more
MaxDays == 3

ShadeValues == { 0, 400, 1000 }

EtChoices == { 1000, 3000 }

\* marks an item the service sent without an 'et'
NoEt == -1

StatusCodes == { 200, 401, 500 }

\* what iterate_through_year returns for the first n days of year y
ShadeLists(y, n) ==
    { [i \in 1..n |-> [time  |-> Strftime(AddDays(<< y, 1, 1 >>, i - 1)),
                       shade |-> v[i]]] : v \in [1..n -> ShadeValues] }

\* the service's items for n consecutive days from 1 January + first, each
\* with an 'et' or without one
EtLists(y, first, n) ==
    { [i \in 1..n |->
          IF v[i] = NoEt
          THEN [time |-> Strftime(AddDays(<< y, 1, 1 >>, first + i - 1))]
          ELSE [time |-> Strftime(AddDays(<< y, 1, 1 >>, first + i - 1)),
                et   |-> v[i]]] : v \in [1..n -> EtChoices \cup {NoEt}] }

InitET ==
    /\ pc = "evapotranspiration"
    /\ caller = "none"
    /\ error = "none"
    /\ lat = 42 /\ lon = -120 /\ timezone = -8
    /\ year \in { 2021, 2022 }
    /\ max_rotation = 45
    /\ tilt = 35
    /\ sunrise_sunset_pairs = << >>
    /\ month = None
    /\ day = None
    /\ IdleDay
    /\ IdleYear
    /\ status_code \in StatusCodes
    /\ \E n \in 0..(MaxDays + 1), first \in { 0, 1 } :
           response_json \in EtLists(year, first, n)
    /\ et_data = None
    /\ \E n \in 0..MaxDays : daily_shade \in ShadeLists(year, n)
    /\ adjusted_et_values = None
    /\ totals = None
    /\ plotted = FALSE

NextET == Fetch \/ Combine \/ Totals \/ PlotValues

SpecET == InitET /\ [][NextET]_vars

(***************************************************************************)
(* Properties of iterate_through_year (SpecYear).                          *)
(***************************************************************************)
\* the lengths of the months of a common year
MonthDays == << 31, 28, 31, 30, 31, 30, 31, 31, 30, 31, 30, 31 >>

\* a record's 'time' is a day of year y
IsDayOf(t, y) ==
    LET yy == t[1] * 1000 + t[2] * 100 + t[3] * 10 + t[4]
        mm == t[5] * 10 + t[6]
        dd == t[7] * 10 + t[8]
    IN  /\ yy = y
        /\ mm \in 1..12
        /\ dd >= 1
        /\ dd <= MonthDays[mm] + (IF mm = 2 /\ y % 4 = 0 THEN 1 ELSE 0)

\* C1: iterate_through_year returns one record per calendar day of the year,
\* from 1 January through 31 December, in strictly increasing date order:
\* every record is a day of the year, each later than the one before, the
\* first is 1 January, and on return the last is 31 December and there are
\* 365 records in a common year and 366 in a leap year.
YearHasEveryDayOnce ==
    LET n == Len(shade_results)
    IN  /\ \A i \in 1..n : IsDayOf(shade_results[i].time, year)
        /\ \A i \in 1..(n - 1) :
               DateValue(shade_results[i].time) < DateValue(shade_results[i + 1].time)
        /\ n > 0 => DateValue(shade_results[1].time) = year * 10000 + 101
        /\ pc = "year_returned" =>
               /\ n = (IF year % 4 = 0 THEN 366 ELSE 365)
               /\ DateValue(shade_results[n].time) = year * 10000 + 1231

\* a leap year iterated to its end, with 29 February among the records
LeapYearIterated ==
    /\ pc = "year_returned"
    /\ year = 2020
    /\ Len(shade_results) = 366
    /\ DateValue(shade_results[60].time) = 20200229

(***************************************************************************)
(* Properties of the ET adjustment (SpecET).                               *)
(***************************************************************************)
\* adjusted_evapotranspiration has gone past its line 313
PastZip == pc \in { "raised", "water_saved", "plot_values", "done" }

\* the ET items and the shade records carry the same dates, index by index
SameDates(et, shade) ==
    /\ Len(et) = Len(shade)
    /\ \A i \in 1..Len(et) : et[i].time = shade[i].time

\* C2: when the ET sequence and the shade sequence differ in length,
\* adjusted_evapotranspiration fails and produces no adjusted-ET series.
LengthMismatchFails ==
    (PastZip /\ et_data /= None /\ Len(et_data.list) /= Len(daily_shade))
        => (pc = "raised" /\ adjusted_et_values = None)

\* C3: when the two sequences have the same length but some ET item's date
\* differs from the date of the shade record at its index,
\* adjusted_evapotranspiration fails; every element it returns is the product
\* of an ET value and a shade of the same date.
MisalignedDatesFail ==
    (PastZip /\ et_data /= None /\ Len(et_data.list) = Len(daily_shade))
        => /\ ~SameDates(et_data.list, daily_shade)
                => (pc = "raised" /\ adjusted_et_values = None)
           /\ adjusted_et_values /= None
                => \A i \in 1..Len(adjusted_et_values.list) :
                       et_data.list[i].time = daily_shade[i].time

\* C4: after a fetch with a status other than 200, get_et_data and
\* evapotranspiration give None, and the zip of line 313 raises (a TypeError:
\* None cannot be iterated): no adjusted-ET series, no totals and no plot.
UnsuccessfulFetchFails ==
    (status_code /= 200 /\ pc /= "evapotranspiration")
        => /\ GetEtData(status_code, response_json) = None
           /\ et_data = None
           /\ adjusted_et_values = None
           /\ totals = None
           /\ ~plotted
           /\ pc \in { "zip", "raised" }
           /\ pc = "raised" => error = "TypeError"

\* a failed fetch whose body had items, ended by the TypeError
FailedFetchRaised ==
    /\ status_code = 500
    /\ response_json /= << >>
    /\ daily_shade /= << >>
    /\ pc = "raised"
    /\ error = "TypeError"

\* sum of et[i] * shade[i] over the days
RECURSIVE ShadedSum(_, _, _)
ShadedSum(et, shade, i) ==
    IF i > Len(et) THEN 0
    ELSE (et[i].et * shade[i].shade) \div One + ShadedSum(et, shade, i + 1)

\* sum of et[i] - et[i] * (1 - shade[i]) over the days
RECURSIVE SavedSum(_, _, _)
SavedSum(et, shade, i) ==
    IF i > Len(et) THEN 0
    ELSE et[i].et - (et[i].et * (One - shade[i].shade)) \div One
           + SavedSum(et, shade, i + 1)

\* C9: for an ET sequence and a shade sequence of equal length and the same
\* dates, water_saved returns sum(et) - sum(adjustedET) with
\* adjustedET[i] = et[i] * (1 - shade[i]), which is the sum over the days of
\* et[i] * shade[i].
WaterSavedIdentity ==
    (totals /= None /\ SameDates(et_data.list, daily_shade))
        => /\ totals.water = SavedSum(et_data.list, daily_shade, 1)
           /\ totals.water = ShadedSum(et_data.list, daily_shade, 1)

\* water saved over three aligned days of which some are partly shaded
WaterSavedOverAlignedDays ==
    /\ totals /= None
    /\ SameDates(et_data.list, daily_shade)
    /\ Len(daily_shade) = 3
    /\ \E i \in 1..3 : daily_shade[i].shade = 400
    /\ totals.water > 0

(***************************************************************************)
(* Properties of shade_coverage and iterate_sunrise_to_sunset (SpecDay).   *)
(***************************************************************************)
\* shade_coverage has been called
Called == shade_call /= NoCall

\* C5: the coverage fraction shade_coverage returns lies in [0, 1].
CoverageWithinUnitInterval ==
    Called => (0 <= shade_call.result /\ shade_call.result <= One)

\* C6: azimuth_blume lies in [-max_rotation, max_rotation]; it equals the
\* sun's azimuth from south, 180 - azimuth, when that lies in the interval,
\* and it is 0 when max_rotation = 0.
AzimuthBlumeClamped ==
    Called =>
        /\ shade_call.azimuth_S = 180 - shade_call.azimuth
        /\ -max_rotation <= shade_call.azimuth_blume
        /\ shade_call.azimuth_blume <= max_rotation
        /\ (-max_rotation <= shade_call.azimuth_S /\ shade_call.azimuth_S <= max_rotation)
               => shade_call.azimuth_blume = shade_call.azimuth_S
        /\ max_rotation = 0 => shade_call.azimuth_blume = 0

\* the afternoon sun beyond the structure's westward limit
SunBeyondRotationLimit ==
    /\ Called
    /\ max_rotation = 45
    /\ shade_call.azimuth_S < -45
    /\ shade_call.azimuth_blume = -45

\* the pair iterate_sunrise_to_sunset matched
MatchedPair == sunrise_sunset_pairs[matched]

\* an instant on a whole minute
OnWholeMinute(t) == t.sec % 60 = 0 /\ t.usec = 0

\* C7 as stated: on a day whose matched pair has sunrise = sunset, on a whole
\* minute or not, iterate_sunrise_to_sunset returns 0.
DegenerateDayReturnsZero ==
    (pc = "returned" /\ MatchedPair.sunrise = MatchedPair.sunset)
        => daily_shade_value = 0

\* C7 amended: iterate_sunrise_to_sunset returns 0 whenever no sample falls in
\* the window, as on a day whose matched pair has sunrise = sunset off a whole
\* minute; when sunrise = sunset falls on a whole minute, one sample is taken
\* at that minute and its coverage is returned. No division error is raised.
DegenerateDayResult ==
    pc = "returned" =>
        /\ error = "none"
        /\ count = 0 => daily_shade_value = 0
        /\ (MatchedPair.sunrise = MatchedPair.sunset
              /\ ~OnWholeMinute(MatchedPair.sunrise))
               => (count = 0 /\ daily_shade_value = 0)
        /\ (MatchedPair.sunrise = MatchedPair.sunset
              /\ OnWholeMinute(MatchedPair.sunrise))
               => /\ count = 1
                  /\ daily_shade_value = shade_call.result
                  /\ shade_call.local_hour = HourOf(MatchedPair.sunrise)
                  /\ shade_call.local_minute = MinuteOf(MatchedPair.sunrise)

\* a day matched to a pair with sunrise = sunset off a whole minute
DegenerateDayReturned ==
    /\ pc = "returned"
    /\ MatchedPair.sunrise = MatchedPair.sunset
    /\ ~OnWholeMinute(MatchedPair.sunrise)
    /\ count = 0
    /\ daily_shade_value = 0

\* the distance of pair j's sunrise from the target day's local midnight
Distance(j) ==
    AbsDelta(DateTime(year, month, day, 0, 0, 0), sunrise_sunset_pairs[j].sunrise)

\* the day of January a pair's sunrise falls on
SunriseDay(j) == sunrise_sunset_pairs[j].sunrise.sec \div 86400 + 1

\* C8: find_closest_sunrise_sunset returns a stored pair whose sunrise is at
\* the least distance from the target day's local midnight, and the first
\* such pair in sequence order; with pairs on days 1, 15 and 29 a query for
\* day 20 returns the pair of day 15.
ClosestPairIsFirstMinimum ==
    pc \in { "sampling", "returned" } =>
        /\ matched \in 1..Len(sunrise_sunset_pairs)
        /\ \A j \in 1..Len(sunrise_sunset_pairs) :
               /\ ~DeltaLess(Distance(j), Distance(matched))
               /\ j < matched => DeltaLess(Distance(matched), Distance(j))
        /\ (Len(sunrise_sunset_pairs) = 3 /\ SunriseDay(1) = 1 /\ SunriseDay(2) = 15
              /\ SunriseDay(3) = 29 /\ month = 1 /\ day = 20)
               => matched = 2

\* two different pairs at the same least distance, the earlier one returned
ClosestPairTie ==
    /\ pc = "returned"
    /\ \E j \in 1..Len(sunrise_sunset_pairs) :
           /\ j > matched
           /\ Distance(j) = Distance(matched)
           /\ sunrise_sunset_pairs[j] /= MatchedPair

\* C10: the UTC instant shade_coverage hands to the solar position provider
\* is the local sample instant minus timezone hours, the calendar date moving
\* with it when the hour leaves 0..23.
UtcInstantIsLocalMinusOffset ==
    Called =>
        shade_call.dt_utc.sec =
            DateTime(year, shade_call.local_month, shade_call.local_day,
                     shade_call.local_hour, shade_call.local_minute, 0).sec
              - timezone * 3600

(***************************************************************************)
(* Properties of sunrise_sunset_times (SpecYear).                          *)
(***************************************************************************)
\* the day numbers the 14-day strides of a year stop at
StrideDays == { iteration_days * k : k \in 0..26 }

\* the pair is the sunrise and the sunset found in the window of day n, the
\* sunrise before the sunset
IsSunriseThenSunsetOf(pair, n) ==
    LET found == FindDiscrete(lat, lon, n)
    IN  \E i, j \in 1..Len(found) :
            /\ found[i].sunrise
            /\ ~found[j].sunrise
            /\ pair.sunrise = AsTimezone(found[i].t, lon)
            /\ pair.sunset = AsTimezone(found[j].t, lon)
            /\ DeltaLess(pair.sunrise, pair.sunset)

\* C11: every pair sunrise_sunset_times appends holds, first, a sunrise and,
\* second, the sunset of the same one-day window, the sunrise earlier than
\* the sunset, whatever the order of the crossings inside the window that
\* starts at 04:00 UTC.
PairsAreSunriseThenSunset ==
    pc = "calendar_loop" =>
        \A k \in 1..Len(sunrise_sunset_pairs) :
            \E n \in StrideDays : IsSunriseThenSunsetOf(sunrise_sunset_pairs[k], n)

(***************************************************************************)
(* Properties of the sampling loop of iterate_sunrise_to_sunset            *)
(* (SpecDay).                                                              *)
(***************************************************************************)
\* r is sunrise rounded up to the next whole minute unless already exact
IsRoundedUp(r, sunrise) ==
    /\ OnWholeMinute(r)
    /\ IF OnWholeMinute(sunrise) THEN r = sunrise
       ELSE r.sec > sunrise.sec /\ r.sec - sunrise.sec <= 60

\* r is sunset truncated to the whole minute
IsTruncated(r, sunset) ==
    /\ OnWholeMinute(r)
    /\ r.sec <= sunset.sec
    /\ sunset.sec - r.sec < 60

\* the k-th sample time, k = 0, 1, 2, ...
SampleTime(k) == [sec |-> sunrise_rounded.sec + 3600 * k, usec |-> 0]

\* how many of the sample times are <= sunset_rounded
SamplesInWindow ==
    IF sunrise_rounded.sec > sunset_rounded.sec THEN 0
    ELSE (sunset_rounded.sec - sunrise_rounded.sec) \div 3600 + 1

\* the coverage at the k-th sample time
SampleAt(k) ==
    ShadeCoverage(lat, lon, year, ground_area, height, width, tilt,
                  (SampleTime(k).sec \div 3600) % 24, max_rotation, timezone,
                  month, day, (SampleTime(k).sec \div 60) % 60).result

RECURSIVE SampleSum(_)
\* the sum of the first n samples
SampleSum(n) == IF n = 0 THEN 0 ELSE SampleSum(n - 1) + SampleAt(n - 1)

\* the samples the loop has still to take: a natural number while it runs
LoopVariant == SamplesInWindow - count

\* the loop has taken the samples 0..count-1, each inside the window, and on
\* return it has taken them all and returns their mean
SamplingLoopState ==
    pc \in { "sampling", "returned" } =>
        /\ IsRoundedUp(sunrise_rounded, MatchedPair.sunrise)
        /\ IsTruncated(sunset_rounded, MatchedPair.sunset)
        /\ LoopVariant >= 0
        /\ current_time = SampleTime(count)
        /\ total_shade_coverage = SampleSum(count)
        /\ count > 0 =>
               /\ shade_call.local_hour = HourOf(SampleTime(count - 1))
               /\ shade_call.local_minute = MinuteOf(SampleTime(count - 1))
               /\ TimeLeq(MatchedPair.sunrise, SampleTime(count - 1))
               /\ TimeLeq(SampleTime(count - 1), MatchedPair.sunset)
        /\ pc = "returned" =>
               /\ count = SamplesInWindow
               /\ count > 0 => daily_shade_value = SampleSum(count) \div count
               /\ count = 0 => daily_shade_value = 0

\* an iteration takes one sample and decreases the variant by one; the loop
\* is left when, and only when, no sample time <= sunset_rounded remains
LoopStep ==
    pc = "sampling" =>
        \/ /\ pc' = "sampling"
           /\ LoopVariant > 0
           /\ LoopVariant' = LoopVariant - 1
           /\ current_time'.sec = current_time.sec + 3600
           /\ shade_call'.local_hour = HourOf(current_time)
           /\ shade_call'.local_minute = MinuteOf(current_time)
        \/ /\ pc' = "returned"
           /\ LoopVariant = 0
           /\ count' = count

\* C12: for every matched pair the sampling loop terminates (the number of
\* samples left is a natural number that every iteration decreases by one,
\* and the loop returns when it is zero) and takes its samples exactly at
\* sunrise_rounded + k * 60 minutes, k = 0, 1, 2, ..., up to and including
\* sunset_rounded, sunrise_rounded being the sunrise rounded up to the whole
\* minute and sunset_rounded the sunset truncated to it; every sample time
\* lies within [sunrise, sunset], and the value returned is the arithmetic
\* mean of the samples.
SamplingLoopTerminatesWithMean ==
    /\ []SamplingLoopState
    /\ [][LoopStep]_vars

\* ten hourly samples from a sunrise off a whole minute, returned
TenSamplesReturned ==
    /\ pc = "returned"
    /\ ~OnWholeMinute(MatchedPair.sunrise)
    /\ count = 10
    /\ SampleTime(9).sec + 3600 > sunset_rounded.sec

====
